---- MODULE Spec2Model ----
(***************************************************************************)
(* Activity import of metrique (client side, cube_api.py): reconstruction  *)
(* of the version history of an object from its activity log, the chunk    *)
(* task that swaps the reconstructed versions into the store, and the      *)
(* thread-pool orchestrator that runs one chunk task per chunk of oids.    *)
(***************************************************************************)
EXTENDS Integers, Sequences, FiniteSets, TLC

(***************************************************************************)
(* Bounds of the model.                                                    *)
(***************************************************************************)
MaxT == 3
MaxVal == 2
MaxActs == 2
MaxRuns == 2

(***************************************************************************)
(* Python values.  Every value is a record of one shape so that Python's   *)
(* == between values of different types is plain record equality (False).  *)
(* A timestamp is a number; a datetime is a value of its own type.         *)
(***************************************************************************)
NoneV == [t |-> "none", i |-> 0, l |-> <<>>]
Num(n) == [t |-> "num", i |-> n, l |-> <<>>]
Dt(n) == [t |-> "dt", i |-> n, l |-> <<>>]
ListV(s) == [t |-> "list", i |-> 0, l |-> s]

\* metriqueu.utils.ts2dt: a timestamp becomes a datetime, None and datetimes
\* pass through
ts2dt(v) == IF v.t = "num" THEN Dt(v.i) ELSE v

\* metriqueu.utils.dt2ts: a datetime becomes a timestamp
dt2ts(v) == IF v.t = "dt" THEN Num(v.i) ELSE v

\* lines 307-308: dt2ts(x) if isinstance(x, datetime) else x
DtAsTs(v) == IF v.t = "dt" THEN dt2ts(v) ELSE v

\* a < b between two datetimes
DtLess(a, b) == a.i < b.i

\* the comparison a < b of Python raises TypeError for a datetime against a
\* value that is not a datetime
DtComparable(a, b) == a.t = "dt" /\ b.t = "dt"

(***************************************************************************)
(* Field names.  "other" is a field no document of the model tracks.       *)
(***************************************************************************)
ScalarFields == {"status", "prio"}
ActFields == ScalarFields \cup {"other"}
CFieldName == "created"

FieldRank(f) ==
  CASE f = "other" -> 1
    [] f = "prio" -> 2
    [] f = "status" -> 3
    [] f = "tags" -> 4
    [] OTHER -> 0

(***************************************************************************)
(* Order of Python 2 on the values of activity tuples, used by sorted().   *)
(***************************************************************************)
TypeRank(v) ==
  CASE v.t = "none" -> 0
    [] v.t = "num" -> 1
    [] v.t = "dt" -> 2
    [] OTHER -> 3

RECURSIVE SeqLess(_, _)
SeqLess(s, u) ==
  IF s = <<>> THEN u # <<>>
  ELSE IF u = <<>> THEN FALSE
  ELSE IF Head(s) # Head(u) THEN Head(s) < Head(u)
  ELSE SeqLess(Tail(s), Tail(u))

ValLess(a, b) ==
  IF TypeRank(a) # TypeRank(b) THEN TypeRank(a) < TypeRank(b)
  ELSE IF a.t = "list" THEN SeqLess(a.l, b.l)
  ELSE a.i < b.i

\* tuple comparison (when, field, removed, added) < (when, field, removed, added)
ActLess(a, b) ==
  IF a.when # b.when THEN DtLess(a.when, b.when)
  ELSE IF a.field # b.field THEN FieldRank(a.field) < FieldRank(b.field)
  ELSE IF a.removed # b.removed THEN ValLess(a.removed, b.removed)
  ELSE ValLess(a.added, b.added)


(***************************************************************************)
(* Helpers on sequences and functions.                                     *)
(***************************************************************************)
Last(s) == s[Len(s)]
Front(s) == SubSeq(s, 1, Len(s) - 1)

\* d[k] = v on a Python dict
Put(f, k, v) == [x \in (DOMAIN f) \cup {k} |-> IF x = k THEN v ELSE f[x]]

InSeq(x, s) == \E j \in 1..Len(s) : s[j] = x

\* a remove that drops every occurrence of x
ListRemove_All(s, x) == SelectSeq(s, LAMBDA y : y # x)

\* list.remove(x): drop the first occurrence of x
RECURSIVE ListRemove(_, _)
ListRemove(s, x) ==
  IF s = <<>> THEN <<>>
  ELSE IF Head(s) = x THEN Tail(s)
  ELSE <<Head(s)>> \o ListRemove(Tail(s), x)

\* insert a into the descending sequence s, after the elements not below it
RECURSIVE InsertDesc(_, _)
InsertDesc(s, a) ==
  IF s = <<>> THEN <<a>>
  ELSE IF ActLess(Head(s), a) THEN <<a>> \o s
  ELSE <<Head(s)>> \o InsertDesc(Tail(s), a)

\* line 305 left out: the activities are processed in the order supplied
SortedDesc_AsGiven(s) == s

\* sorted(activities, reverse=True)
RECURSIVE SortedDesc(_)
SortedDesc(s) ==
  IF s = <<>> THEN <<>>
  ELSE InsertDesc(SortedDesc(Front(s)), Last(s))

(***************************************************************************)
(* _activity_backwards(val, removed, added): undo one activity.            *)
(* Result: the undone value, the inconsistency flag, and whether the call  *)
(* raised (a list activity on a value that is neither None nor a list).    *)
(***************************************************************************)
\* for ad in added: if ad in val: val.remove(ad) else: inconsistent = True
RECURSIVE UndoAdded(_, _, _)
UndoAdded(val, added, inc) ==
  IF added = <<>> THEN [l |-> val, inc |-> inc]
  ELSE IF InSeq(Head(added), val)
       THEN UndoAdded(ListRemove(val, Head(added)), Tail(added), inc)
       ELSE UndoAdded(val, Tail(added), TRUE)

\* a scalar undo that keeps the current value when it disagrees with added
_activity_backwards_KeepsCurrent(val, removed, added) ==
  IF added.t = "list" /\ removed.t = "list"
  THEN IF val.t \notin {"none", "list"}
       THEN [val |-> val, inconsistent |-> FALSE, err |-> TRUE]
       ELSE LET u == UndoAdded(val.l, added.l, FALSE)
            IN [val |-> ListV(u.l \o removed.l), inconsistent |-> u.inc,
                err |-> FALSE]
  ELSE [val |-> IF val # added THEN val ELSE removed,
        inconsistent |-> (val # added), err |-> FALSE]

_activity_backwards(val, removed, added) ==
  IF added.t = "list" /\ removed.t = "list"
  THEN IF val.t \notin {"none", "list"}
       THEN [val |-> val, inconsistent |-> FALSE, err |-> TRUE]
       ELSE LET u == UndoAdded(val.l, added.l, FALSE)
            IN [val |-> ListV(u.l \o removed.l), inconsistent |-> u.inc,
                err |-> FALSE]
  ELSE [val |-> removed, inconsistent |-> (val # added), err |-> FALSE]

(***************************************************************************)
(* _activity_import_doc(self, time_doc, activities)                        *)
(***************************************************************************)
\* a filter that does not look at the instant of the activity
ActKeep_AnyTime(time_doc, td_start, act) == act.field \in DOMAIN time_doc.fld

\* lines 302-303: the activities before the document's start on a key of it
ActKeep(time_doc, td_start, act) ==
  /\ DtLess(act.when, td_start)
  /\ act.field \in DOMAIN time_doc.fld

\* filter(lambda act: ..., activities), keeping the order
RECURSIVE FilterActs(_, _, _)
FilterActs(time_doc, td_start, s) ==
  IF s = <<>> THEN <<>>
  ELSE IF ActKeep(time_doc, td_start, Head(s))
       THEN <<Head(s)>> \o FilterActs(time_doc, td_start, Tail(s))
       ELSE FilterActs(time_doc, td_start, Tail(s))

\* the entry written to the inconsistency log (lines 327-334)
Incon(last_doc, act, removed, added, last_val) ==
  [last_doc_oid |-> last_doc._oid, field |-> act.field, removed |-> removed,
   added |-> added, last_val |-> last_val]

\* line 312 comparing the end with the activity's instant as a timestamp
SameInstant_AsTimestamp(top, when) == top._end = dt2ts(when)

\* line 312: the activity happened at the same time as the last one
SameInstant(top, when) == top._end = when

\* lines 316-319 without line 319: the copy keeps the end of the last version
NewDoc_KeepsEnd(top, when) == [top EXCEPT !._id = 0, !._start = when]

\* lines 316-319: the older version split off the last one
NewDoc(top, when) == [top EXCEPT !._id = 0, !._start = when, !._end = when]

\* line 320 writing the end as well as the start of the last version
MovedStart_AlsoEnd(top, when) == [top EXCEPT !._start = when, !._end = when]

\* line 320: the last version now starts at the activity
MovedStart(top, when) == [top EXCEPT !._start = when]

\* lines 336-338 left out: the inconsistency leaves no mark on the document
MarkCorrupted_Dropped(doc, field, added) == doc

\* lines 336-338: new_doc['_corrupted'][field] = added
MarkCorrupted(doc, field, added) ==
  [doc EXCEPT !._corrupted = Put(doc._corrupted, field, added)]

\* one iteration of the loop of lines 306-341 on the state
\* st = [batch, err, incons, flagged]; flagged keeps the (when, field) of the
\* activities line 326 found inconsistent
ImportStep(st, act) ==
  LET when == act.when
      field == act.field
      removed == DtAsTs(act.removed)
      added == DtAsTs(act.added)
      top == Last(st.batch)
      rest == Front(st.batch)
      merge == SameInstant(top, when)
  IN
  IF merge /\ rest = <<>>
  THEN [st EXCEPT !.err = TRUE]
  ELSE
    LET last_doc == IF merge THEN Last(rest) ELSE MovedStart(top, when)
        below == IF merge THEN Front(rest) ELSE rest
        new_doc0 == IF merge THEN top ELSE NewDoc(top, when)
        last_val == last_doc.fld[field]
        u == _activity_backwards(new_doc0.fld[field], removed, added)
        new_doc1 == [new_doc0 EXCEPT !.fld = Put(new_doc0.fld, field, u.val)]
        new_doc == IF u.inconsistent
                   THEN MarkCorrupted(new_doc1, field, added)
                   ELSE new_doc1
    IN
    IF u.err
    THEN [st EXCEPT !.err = TRUE]
    ELSE [batch |-> below \o <<last_doc, new_doc>>,
          err |-> FALSE,
          incons |-> IF u.inconsistent
                     THEN Append(st.incons,
                                 Incon(last_doc, act, removed, added, last_val))
                     ELSE st.incons,
          flagged |-> IF u.inconsistent
                      THEN st.flagged \cup {<<when, field>>}
                      ELSE st.flagged]

RECURSIVE ImportLoop(_, _)
ImportLoop(st, acts) ==
  IF acts = <<>> \/ st.err THEN st
  ELSE ImportLoop(ImportStep(st, Head(acts)), Tail(acts))

\* lines 342-355 without the comparison of line 348: the start of the oldest
\* version is set to the creation time whenever that can be read
CreationStep_Always(batch, cfield) ==
  LET last_doc == Last(batch)
      raises == \/ cfield \notin DOMAIN last_doc.fld
                \/ ~DtComparable(ts2dt(last_doc.fld[cfield]), last_doc._start)
  IN
  IF raises THEN batch
  ELSE Front(batch) \o <<[last_doc EXCEPT !._start = ts2dt(last_doc.fld[cfield])]>>

\* lines 342-355: move the start of the oldest version to the creation time;
\* an exception in the try block is logged and the batch returned as it is
CreationStep(batch, cfield) ==
  LET last_doc == Last(batch)
      raises == \/ cfield \notin DOMAIN last_doc.fld
                \/ ~DtComparable(ts2dt(last_doc.fld[cfield]), last_doc._start)
  IN
  IF raises THEN batch
  ELSE LET creation_ts == ts2dt(last_doc.fld[cfield])
       IN IF DtLess(creation_ts, last_doc._start)
          THEN Front(batch) \o <<[last_doc EXCEPT !._start = creation_ts]>>
          ELSE IF Len(batch) = 1 THEN <<>>
          ELSE batch

\* the whole function: [batch, err, incons, flagged]
_activity_import_doc(time_doc, activities, cfield) ==
  LET td_start == ts2dt(time_doc._start)
      doc0 == [time_doc EXCEPT !._start = td_start]
      acts == SortedDesc(FilterActs(time_doc, td_start, activities))
      st == ImportLoop([batch |-> <<doc0>>, err |-> FALSE, incons |-> <<>>,
                       flagged |-> {}], acts)
  IN IF st.err THEN [st EXCEPT !.batch = <<>>]
     ELSE [st EXCEPT !.batch = CreationStep(st.batch, cfield)]


(***************************************************************************)
(* The store behind find / cube_remove / cube_save.                        *)
(***************************************************************************)
\* find('_oid in %s' % oids, ..., raw=True, merge_versions=False)
Find(st, oids) == {d \in st : d._oid \in oids}

\* a loop that keeps whatever version of the oid it saw last
IsAnchor_Any(st, d) == d \in st

\* the documents find can return first for an oid among those kept by
\* lines 257-261: a document of the oid with the least _start
IsAnchor(st, d) ==
  /\ d \in st
  /\ \A e \in st : e._oid = d._oid => ~(d._start.i > e._start.i)

\* the server side of remove(ids)
StoreRemove(st, ids) == {d \in st : d._id \notin ids}

\* the server side of save(objects): datetimes are stored as timestamps and
\* every saved object gets an _id and a _hash of its own
Stored(d, id) ==
  [d EXCEPT !._id = id, !._hash = 1, !._start = dt2ts(d._start),
            !._end = dt2ts(d._end)]

StoreSave(st, first, objs) ==
  st \cup {Stored(objs[j], first + j - 1) : j \in 1..Len(objs)}

\* lines 278-282 without the pop of line 279: the document keeps its _id
TimeDoc_KeepsId(d) == [d EXCEPT !._hash = 0]

\* lines 278-282 for one document of docs.values()
TimeDoc(d) == [d EXCEPT !._id = 0, !._hash = 0]

(***************************************************************************)
(* State.                                                                  *)
(***************************************************************************)
VARIABLES
  store,        \* the version documents of the cube
  nextId,       \* the next _id the store assigns
  activities,   \* the activity table: oid -> list of (when, field, removed, added)
  cfield,       \* self.get_property('cfield')
  runs,         \* number of chunk tasks run so far (sequential runs)
  rerun,        \* the last run saw the activity table of the run before it
  prevActs,     \* the activity table at the last run
  lastDoc,      \* the time_doc given to the last _activity_import_doc
  lastActs,     \* the activities given to it
  lastBatch,    \* what it returned
  lastIncons,   \* the inconsistencies it logged
  lastFlagged,  \* the (when, field) of the activities it found inconsistent
  lastRemoved,  \* remove_ids of the last chunk task
  lastSaved,    \* save_objects of the last chunk task
  oids,         \* the oids given to activity_import
  chunk_size,   \* its chunk_size
  max_workers,  \* its max_workers
  pcMain,       \* where activity_import is
  task,         \* chunk number -> the state of its _activity_import call
  hasIncon,     \* the client object has the attribute incon_logger
  handlers,     \* number of FileHandlers added to the logger 'incon'
  inconLog,     \* the inconsistency log file: entry -> times written
  raisedBy,     \* the chunk whose exception activity_import raised
  store0,       \* the store when activity_import was called
  undo,         \* a call of _activity_backwards: its arguments and its result
  recon,        \* a call of _activity_import_doc on a document with a list field
  saving,       \* a call of save: its arguments, the posts made, its result
  authn,        \* a call of authenticate: the server's data and the answer
  request       \* a request served by a handler wrapped with async

seqVars == <<runs, rerun, prevActs, lastDoc, lastActs, lastBatch, lastIncons,
             lastFlagged, lastRemoved, lastSaved>>

mainVars == <<oids, chunk_size, max_workers, pcMain, task, hasIncon, handlers,
              inconLog, raisedBy, store0>>

\* the calls that are modelled on their own
callVars == <<undo, recon, saving, authn, request>>

vars == <<store, nextId, activities, cfield, seqVars, mainVars, callVars>>

\* a call that is not made
Idle == [pc |-> "idle"]

\* what _activity_backwards returned, before it returns
NoRet == [val |-> NoneV, inconsistent |-> FALSE, err |-> FALSE]

\* no call of _activity_backwards on its own
NoCall == [pc |-> "idle", val |-> NoneV, removed |-> NoneV, added |-> NoneV,
           ret |-> NoRet]

Unset == "unset"

\* a version document as the store holds it
MkDoc(id, oid, start, end, created) ==
  [_id |-> id, _hash |-> 1, _oid |-> oid, _start |-> start, _end |-> end,
   fld |-> [f \in ScalarFields \cup {CFieldName} |->
              IF f = CFieldName THEN created ELSE Num(1)],
   _corrupted |-> <<>>]

NoDoc == MkDoc(0, 0, NoneV, NoneV, NoneV)

\* the activities the ingestion path can append
ActUniverse ==
  [when : {Dt(w) : w \in 1..MaxT}, field : ActFields,
   removed : {Num(v) : v \in 1..MaxVal}, added : {Num(v) : v \in 1..MaxVal}]

\* the stores the runs start from: the versions of oid 1 form a chain, the
\* oldest one either current or closed by a newer version
InitStores ==
  {{MkDoc(1, 1, Num(s), NoneV, Num(c))} : s \in 2..MaxT, c \in {0, MaxT}}
  \cup
  {{MkDoc(1, 1, Num(s), Num(s + 1), Num(c)),
    MkDoc(2, 1, Num(s + 1), NoneV, Num(c))} : s \in 2..MaxT, c \in {0, MaxT}}

InitSeq ==
  /\ store \in InitStores
  /\ nextId = 3
  /\ activities = [o \in {1} |-> <<>>]
  /\ cfield \in {CFieldName, Unset}
  /\ runs = 0
  /\ rerun = FALSE
  /\ prevActs = [o \in {1} |-> <<>>]
  /\ lastDoc = NoDoc
  /\ lastActs = <<>>
  /\ lastBatch = <<>>
  /\ lastIncons = <<>>
  /\ lastFlagged = {}
  /\ lastRemoved = {}
  /\ lastSaved = <<>>
  /\ oids = <<>>
  /\ chunk_size = 1
  /\ max_workers = 1
  /\ pcMain = "idle"
  /\ task = <<>>
  /\ hasIncon = FALSE
  /\ handlers = 0
  /\ inconLog = <<>>
  /\ raisedBy = 0
  /\ store0 = {}
  /\ undo = NoCall
  /\ recon = Idle
  /\ saving = Idle
  /\ authn = Idle
  /\ request = Idle

\* the external ingestion path appends an activity record
Ingest ==
  /\ Len(activities[1]) < MaxActs
  /\ \E a \in ActUniverse :
       activities' = [activities EXCEPT ![1] = Append(@, a)]
  /\ UNCHANGED <<store, nextId, cfield, seqVars, mainVars, callVars>>

\* _activity_import(self, [1], cube, owner) run alone, from find to cube_save
RunChunk ==
  /\ runs < MaxRuns
  /\ \E d \in Find(store, {1}) :
       /\ IsAnchor(store, d)
       /\ LET acts == activities[1]
              r == _activity_import_doc(TimeDoc(d), acts, cfield)
              remove_ids == IF r.batch # <<>> THEN {d._id} ELSE {}
              save_objects == r.batch
          IN /\ ~r.err
             /\ lastDoc' = TimeDoc(d)
             /\ lastActs' = acts
             /\ lastBatch' = r.batch
             /\ lastIncons' = r.incons
             /\ lastFlagged' = r.flagged
             /\ lastRemoved' = remove_ids
             /\ lastSaved' = save_objects
             /\ store' = StoreSave(StoreRemove(store, remove_ids), nextId,
                                   save_objects)
             /\ nextId' = nextId + Len(save_objects)
  /\ runs' = runs + 1
  /\ rerun' = (runs > 0 /\ prevActs = activities)
  /\ prevActs' = activities
  /\ UNCHANGED <<activities, cfield, mainVars, callVars>>

NextSeq == Ingest \/ RunChunk

SpecSeq == InitSeq /\ [][NextSeq]_vars


(***************************************************************************)
(* Properties of the reconstruction of one object (SpecSeq).               *)
(***************************************************************************)
\* the activities of the last run that passed the filter of lines 302-303
Filtered == FilterActs(lastDoc, ts2dt(lastDoc._start), lastActs)

\* the creation time of the last run's document, when the try block of
\* lines 343-349 can read it
HasCreation == cfield \in DOMAIN lastDoc.fld /\ lastDoc.fld[cfield].t = "num"

Versions(st, oid) == {d \in st : d._oid = oid}

\* None as an _end is later than every instant
EndKey(d) == IF d._end.t = "none" THEN MaxT + 10 ELSE d._end.i

\* d comes before e when the versions are sorted by _start (then by _end)
Before(d, e) ==
  \/ d._start.i < e._start.i
  \/ d._start.i = e._start.i /\ EndKey(d) < EndKey(e)
  \/ d._start.i = e._start.i /\ EndKey(d) = EndKey(e) /\ d._id < e._id

\* sorted by _start, every version ends where the next one starts
Chain(S) ==
  \A d, e \in S :
    (Before(d, e) /\ ~(\E x \in S : Before(d, x) /\ Before(x, e)))
      => d._end = e._start

\* C1: the versions of an oid that formed a gap-free, overlap-free chain
\* before a run still form one after it: sorted by start, each version's
\* end is the next one's start.
C1_Partition == Chain(Versions(store, 1))

\* C2 as stated: with a single activity before the anchor's start, the batch
\* is the anchor with its original start and an older version covering
\* [when, anchor.start).
C2_AnchorKeepsStart ==
  (runs >= 1 /\ Len(lastActs) = 1 /\ Len(Filtered) = 1 /\ ~HasCreation)
    => /\ Len(lastBatch) = 2
       /\ lastBatch[1]._start = ts2dt(lastDoc._start)
       /\ lastBatch[2]._start = lastActs[1].when
       /\ lastBatch[2]._end = ts2dt(lastDoc._start)

\* C2 (amended): with a single activity (when, field, removed, added) before
\* the anchor's start the batch has exactly two documents: the anchor with
\* its end and values and its start moved back to when, and an older version
\* with the undone value of the field that ends at when and starts at when
\* (at the creation time, if that is known and earlier).
C2_AnchorMovesToWhen ==
  (runs >= 1 /\ Len(lastActs) = 1 /\ Len(Filtered) = 1)
    => LET a == lastActs[1]
           created == ts2dt(lastDoc.fld[CFieldName])
       IN /\ Len(lastBatch) = 2
          /\ lastBatch[1]._start = a.when
          /\ lastBatch[1]._end = lastDoc._end
          /\ lastBatch[1].fld = lastDoc.fld
          /\ lastBatch[2]._end = a.when
          /\ lastBatch[2]._start =
               IF HasCreation /\ created.i < a.when.i THEN created ELSE a.when
          /\ lastBatch[2].fld[a.field] = a.removed
          /\ \A f \in DOMAIN lastDoc.fld \ {a.field} :
               lastBatch[2].fld[f] = lastDoc.fld[f]

\* the scenario of C2: anchor [3, None) with status 1 and the activity
\* (2, status, removed 2, added 1), no creation time
C2_Witness ==
  /\ runs >= 1
  /\ cfield = Unset
  /\ lastDoc._start = Num(3) /\ lastDoc._end = NoneV
  /\ lastActs = <<[when |-> Dt(2), field |-> "status", removed |-> Num(2),
                   added |-> Num(1)]>>
  /\ Len(lastBatch) = 2
  /\ lastBatch[1]._start = Dt(2) /\ lastBatch[1].fld["status"] = Num(1)
  /\ lastBatch[2]._start = Dt(2) /\ lastBatch[2]._end = Dt(2)
  /\ lastBatch[2].fld["status"] = Num(2)

\* C3: a second run on the store left by a first run, with the same
\* activity log, yields an empty batch and neither deletes nor inserts.
C3_Idempotent ==
  rerun => (lastBatch = <<>> /\ lastRemoved = {} /\ lastSaved = <<>>)

\* C9: a non-empty batch has one document more than there are distinct
\* instants among the filtered activities: activities at the same instant
\* share one version.
C9_OneVersionPerInstant ==
  (runs >= 1 /\ lastBatch # <<>>)
    => Len(lastBatch) =
         1 + Cardinality({Filtered[j].when : j \in 1..Len(Filtered)})

\* two filtered activities at the same instant on different fields gave one
\* additional version
C9_Witness ==
  /\ runs >= 1
  /\ Len(Filtered) = 2
  /\ Filtered[1].when = Filtered[2].when
  /\ Filtered[1].field # Filtered[2].field
  /\ Len(lastBatch) = 2

\* C10: a derived version has a _corrupted entry for a field only if an
\* activity undone while deriving that very version was found inconsistent
\* on that field.
C10_CorruptedOwnOnly ==
  (runs >= 1 /\ lastDoc._corrupted = <<>>)
    => \A j \in 1..Len(lastBatch) :
         \A f \in DOMAIN lastBatch[j]._corrupted :
           j >= 2 /\ <<lastBatch[j]._end, f>> \in lastFlagged

\* the filtered activities of the last run in the order the loop of
\* lines 306-341 takes them
Processed == SortedDesc(Filtered)

\* the loop's state before its first iteration (lines 297-301)
LoopStart ==
  [batch |-> <<[lastDoc EXCEPT !._start = ts2dt(lastDoc._start)]>>,
   err |-> FALSE, incons |-> <<>>, flagged |-> {}]

\* the loop's state after its first k iterations
LoopAfter(k) == ImportLoop(LoopStart, SubSeq(Processed, 1, k))

\* the k-th iteration found its activity inconsistent (line 326)
FlaggedAt(k) == Len(LoopAfter(k).incons) = Len(LoopAfter(k - 1).incons) + 1

\* no later iteration touches the field of the k-th one at its instant
LastOnField(k) ==
  \A j \in (k + 1)..Len(Processed) :
    ~(Processed[j].when = Processed[k].when
      /\ Processed[j].field = Processed[k].field)

\* C11: when the undo of an activity is flagged inconsistent, the older
\* version derived by that activity (the last of the batch after that
\* iteration) has _corrupted[field] = added and its field set to the undone
\* value, removed; the returned batch still has both on the version that
\* ends at the activity's instant, unless a later activity of the same
\* instant rewrote that field.
C11_FlaggedAnnotated ==
  runs >= 1 =>
    \A k \in 1..Len(Processed) :
      FlaggedAt(k) =>
        LET a == Processed[k]
            new_doc == Last(LoopAfter(k).batch)
        IN /\ new_doc._end = a.when
           /\ a.field \in DOMAIN new_doc._corrupted
           /\ new_doc._corrupted[a.field] = a.added
           /\ new_doc.fld[a.field] = a.removed
           /\ LastOnField(k) =>
                \E j \in 2..Len(lastBatch) :
                  /\ lastBatch[j]._end = a.when
                  /\ a.field \in DOMAIN lastBatch[j]._corrupted
                  /\ lastBatch[j]._corrupted[a.field] = a.added
                  /\ lastBatch[j].fld[a.field] = a.removed

\* the anchor has status 1; the single activity (2, status, removed 1,
\* added 2) disagrees with it and the derived version is annotated
C11_Witness ==
  /\ runs >= 1
  /\ lastActs = <<[when |-> Dt(2), field |-> "status", removed |-> Num(1),
                   added |-> Num(2)]>>
  /\ lastDoc._start = Num(3)
  /\ Len(lastBatch) = 2
  /\ lastFlagged = {<<Dt(2), "status">>}
  /\ lastBatch[2]._corrupted = Put(<<>>, "status", Num(2))
  /\ lastBatch[2].fld["status"] = Num(1)

\* the batch as the loop of lines 306-341 leaves it
LoopBatch == LoopAfter(Len(Processed)).batch

\* C15: an anchor with no matching activity and a creation time earlier than
\* its start gives a batch of exactly one document, the anchor with its start
\* moved back to the creation time; a creation time that is not earlier than
\* the start of the oldest version changes no start: the batch is empty or
\* as the loop left it.
C15_CreationExtension ==
  (runs >= 1 /\ HasCreation) =>
    LET created == ts2dt(lastDoc.fld[cfield])
    IN /\ (Filtered = <<>> /\ created.i < lastDoc._start.i)
            => lastBatch = <<[lastDoc EXCEPT !._start = created]>>
       /\ ~(created.i < Last(LoopBatch)._start.i)
            => \/ lastBatch = <<>>
               \/ /\ Len(lastBatch) = Len(LoopBatch)
                  /\ \A j \in 1..Len(lastBatch) :
                       lastBatch[j]._start = LoopBatch[j]._start

\* the anchor [3, None) created at 0, no activity: the batch is the anchor
\* starting at 0
C15_Witness ==
  /\ runs >= 1
  /\ cfield = CFieldName
  /\ lastActs = <<>>
  /\ lastDoc._start = Num(3)
  /\ lastDoc.fld[CFieldName] = Num(0)
  /\ Len(lastBatch) = 1
  /\ lastBatch[1]._start = Dt(0)
  /\ lastBatch[1]._end = lastDoc._end
  /\ lastBatch[1].fld = lastDoc.fld

\* C16: without a creation time (the creation field is not configured or
\* the document does not have it) and without matching activities the batch
\* is empty: the anchor is neither deleted nor inserted again.
C16_NoCreationEmptyBatch ==
  (runs >= 1 /\ ~HasCreation /\ Filtered = <<>>)
    => (lastBatch = <<>> /\ lastRemoved = {} /\ lastSaved = <<>>)

\* an activity that is not before the start of the last run's document, or
\* on a field that document does not have
Irrelevant(a) ==
  \/ ~(a.when.i < lastDoc._start.i)
  \/ a.field \notin DOMAIN lastDoc.fld

InsertAt(s, p, a) == SubSeq(s, 1, p) \o <<a>> \o SubSeq(s, p + 1, Len(s))

RemoveAt(s, p) == SubSeq(s, 1, p - 1) \o SubSeq(s, p + 1, Len(s))

\* C19: only the activities before the anchor's original start and on a
\* field of the anchor influence the result: the batch returned for the
\* activity list with one more activity that is not such, at any place of
\* the list, or with one such activity less, is the batch returned.
C19_FilteredOutNoEffect ==
  runs >= 1 =>
    /\ \A a \in ActUniverse :
         Irrelevant(a) =>
           \A p \in 0..Len(lastActs) :
             LET r == _activity_import_doc(lastDoc, InsertAt(lastActs, p, a),
                                          cfield)
             IN ~r.err /\ r.batch = lastBatch
    /\ \A p \in 1..Len(lastActs) :
         Irrelevant(lastActs[p]) =>
           LET r == _activity_import_doc(lastDoc, RemoveAt(lastActs, p), cfield)
           IN ~r.err /\ r.batch = lastBatch

\* a run on one activity before the anchor's start and one at or after it:
\* the batch has the one version of the first
C19_Witness ==
  /\ runs >= 1
  /\ Len(lastActs) = 2
  /\ Len(Filtered) = 1
  /\ \E p \in 1..2 :
       /\ ~(lastActs[p].when.i < lastDoc._start.i)
       /\ lastActs[p].field \in DOMAIN lastDoc.fld
  /\ Len(lastBatch) = 2

\* the anchor's end is absent or later than its start
AnchorOpen ==
  \/ lastDoc._end = NoneV
  \/ (lastDoc._end.t = "num" /\ lastDoc._end.i > lastDoc._start.i)

\* C27: for an anchor whose end is absent or later than its start, the
\* newest document of a non-empty batch has exactly the anchor's end, field
\* values and corruption marks; only its start may differ, and then it is an
\* earlier instant.
C27_AnchorFrame ==
  (runs >= 1 /\ AnchorOpen /\ lastBatch # <<>>)
    => /\ lastBatch[1]._end = lastDoc._end
       /\ lastBatch[1].fld = lastDoc.fld
       /\ lastBatch[1]._corrupted = lastDoc._corrupted
       /\ lastBatch[1]._oid = lastDoc._oid
       /\ lastBatch[1]._start.t = "dt"
       /\ lastBatch[1]._start.i <= lastDoc._start.i

\* an anchor with an end later than its start was split by an activity: the
\* batch has an older version and the anchor's start moved back
C27_Witness ==
  /\ runs >= 1
  /\ lastDoc._end # NoneV
  /\ AnchorOpen
  /\ Len(lastBatch) >= 2
  /\ lastBatch[1]._start.i < lastDoc._start.i

\* the lists with the same records as s, in every order
Perms(s) ==
  {[j \in 1..Len(s) |-> s[q[j]]] :
     q \in {r \in [1..Len(s) -> 1..Len(s)] :
              \A j, k \in 1..Len(s) : j # k => r[j] # r[k]}}

\* C28: the batch, the inconsistency flags and the inconsistency records
\* _activity_import_doc returns for an anchor are the same for every order
\* in which the same activity records are supplied.
C28_OrderIndependent ==
  runs >= 1 =>
    \A t \in Perms(lastActs) :
      LET r == _activity_import_doc(lastDoc, t, cfield)
      IN /\ ~r.err
         /\ r.batch = lastBatch
         /\ r.flagged = lastFlagged
         /\ r.incons = lastIncons

\* two different activities before the anchor's start, supplied oldest
\* first, were both replayed: the list has another order than the one the
\* loop processes
C28_Witness ==
  /\ runs >= 1
  /\ Len(lastActs) = 2
  /\ Len(Filtered) = 2
  /\ ActLess(lastActs[1], lastActs[2])
  /\ lastActs[1].when # lastActs[2].when
  /\ Len(lastBatch) = 3

\* C20 as stated: in a non-empty batch no derived document has an _id and
\* the entry of the anchor has the anchor's original _id, the one the chunk
\* task deletes.
C20_AnchorIdPreserved ==
  (runs >= 1 /\ lastBatch # <<>>)
    => /\ \A j \in 2..Len(lastBatch) : lastBatch[j]._id = 0
       /\ lastRemoved = {lastBatch[1]._id}

\* C20 (amended): in a non-empty batch no document has an _id or a _hash,
\* the entry of the anchor (the first one, with the anchor's oid, end and
\* values) included: the anchor's _id is only in remove_ids, no stored
\* document has it after the run, and the store gives every document of
\* the batch an _id it has not given before.
C20_NoIdInBatch ==
  (runs >= 1 /\ lastBatch # <<>>)
    => /\ \A j \in 1..Len(lastBatch) :
            lastBatch[j]._id = 0 /\ lastBatch[j]._hash = 0
       /\ lastBatch[1]._oid = lastDoc._oid
       /\ lastBatch[1]._end = lastDoc._end
       /\ lastBatch[1].fld = lastDoc.fld
       /\ Cardinality(lastRemoved) = 1
       /\ 0 \notin lastRemoved
       /\ \A d \in store : d._id \notin lastRemoved
       /\ \A id \in lastRemoved : id < nextId - Len(lastBatch)
       /\ \A j \in 1..Len(lastBatch) :
            \E d \in store :
              /\ d._id = nextId - Len(lastBatch) + j - 1
              /\ d._oid = lastBatch[j]._oid
              /\ d._end = dt2ts(lastBatch[j]._end)
              /\ d.fld = lastBatch[j].fld

\* the anchor of _id 1 gave a batch of two documents without _id: _id 1 is
\* deleted and the two documents are stored under the _ids 3 and 4
C20_Witness ==
  /\ runs = 1
  /\ Len(lastBatch) = 2
  /\ lastBatch[1]._id = 0 /\ lastBatch[2]._id = 0
  /\ lastRemoved = {1}
  /\ {d._id : d \in Versions(store, 1)} \in {{3, 4}, {2, 3, 4}}


(***************************************************************************)
(* activity_import: one _activity_import task per chunk of oids on a       *)
(* ThreadPoolExecutor, all tasks sharing the client object and the store.  *)
(***************************************************************************)
MaxOids == 3
MaxChunk == 2
MaxWorkers == 2

Min(a, b) == IF a < b THEN a ELSE b

\* a range that stops before a last chunk of fewer than chunk_size oids
NChunks_Floor == Len(oids) \div chunk_size

\* range(0, len(oids), chunk_size): the number of chunks
NChunks == (Len(oids) + chunk_size - 1) \div chunk_size

ChunkIds == 1..NChunks

\* oids[i:i + chunk_size] of the c-th chunk, i = (c - 1) * chunk_size
ChunkSeq(c) ==
  SubSeq(oids, (c - 1) * chunk_size + 1, Min(c * chunk_size, Len(oids)))

ChunkOids(c) == {ChunkSeq(c)[j] : j \in 1..Len(ChunkSeq(c))}

\* the state of a task that was not submitted yet
NoTask ==
  [pc |-> "unsubmitted", docs |-> {}, remove_ids |-> {}, save_objects |-> <<>>,
   fail |-> "none", removed |-> FALSE, saved |-> FALSE, nth |-> 0]

Finished(c) == task[c].pc \in {"done", "failed"}
Failed(c) == task[c].pc = "failed"
Running(c) ==
  task[c].pc \in {"load", "handler", "docs", "del", "remove", "save"}

\* the place in time of the next failure of a chunk task among the failures
\* of the run
FailRank == Cardinality({b \in ChunkIds : Failed(b)}) + 1

\* the inconsistent activity of the model: the anchors have status 1
IncAct == [when |-> Dt(1), field |-> "status", removed |-> Num(2),
           added |-> Num(2)]

\* the stores activity_import is called on: every oid with one version, or
\* oid 1 with two versions and the last oid with none
MainStores(created) ==
  {{MkDoc(o, o, Num(2), NoneV, Num(created)) : o \in 1..MaxOids},
   {MkDoc(o, o, Num(2), NoneV, Num(created)) : o \in 2..(MaxOids - 1)}
     \cup {MkDoc(1, 1, Num(2), Num(3), Num(created)),
           MkDoc(MaxOids, 1, Num(3), NoneV, Num(created))}}

Init ==
  /\ oids \in {[j \in 1..n |-> j] : n \in 0..MaxOids}
  /\ chunk_size \in 1..MaxChunk
  /\ max_workers \in 1..MaxWorkers
  /\ \E created \in {0, 2} : store \in MainStores(created)
  /\ store0 = store
  /\ nextId = MaxOids + 1
  /\ activities \in [1..MaxOids -> {<<>>, <<IncAct>>}]
  /\ cfield = CFieldName
  /\ pcMain = "submit"
  /\ task = [c \in ChunkIds |-> NoTask]
  /\ hasIncon = FALSE
  /\ handlers = 0
  /\ inconLog = <<>>
  /\ raisedBy = 0
  /\ runs = 0
  /\ rerun = FALSE
  /\ prevActs = activities
  /\ lastDoc = NoDoc
  /\ lastActs = <<>>
  /\ lastBatch = <<>>
  /\ lastIncons = <<>>
  /\ lastFlagged = {}
  /\ lastRemoved = {}
  /\ lastSaved = <<>>
  /\ undo = NoCall
  /\ recon = Idle
  /\ saving = Idle
  /\ authn = Idle
  /\ request = Idle

envVars ==
  <<activities, cfield, oids, chunk_size, max_workers, store0, seqVars,
    callVars>>

\* lines 243-246: ex.submit(_activity_import, self, oids[i:i + chunk_size])
Submit(c) ==
  /\ pcMain = "submit"
  /\ task[c].pc = "unsubmitted"
  /\ \A b \in ChunkIds : b < c => task[b].pc # "unsubmitted"
  /\ task' = [task EXCEPT ![c].pc = "queued"]
  /\ pcMain' = IF c = NChunks THEN "shutdown" ELSE "submit"
  /\ UNCHANGED <<store, nextId, hasIncon, handlers, inconLog, raisedBy, envVars>>

\* a pool that starts no queued task once a task has failed
CanStart_UnlessFailed(c) ==
  /\ task[c].pc = "queued"
  /\ \A b \in ChunkIds : b < c => task[b].pc # "queued"
  /\ Cardinality({b \in ChunkIds : Running(b)}) < max_workers
  /\ ~(\E b \in ChunkIds : Failed(b))

\* a worker thread of the pool takes the next queued task: at most
\* max_workers tasks run at a time, in the order of submission
CanStart(c) ==
  /\ task[c].pc = "queued"
  /\ \A b \in ChunkIds : b < c => task[b].pc # "queued"
  /\ Cardinality({b \in ChunkIds : Running(b)}) < max_workers

Start(c) ==
  /\ CanStart(c)
  /\ task' = [task EXCEPT ![c].pc = "load"]
  /\ UNCHANGED <<store, nextId, pcMain, hasIncon, handlers, inconLog, raisedBy,
                 envVars>>

\* lines 253-264: find and activity_get return; docs keeps the oldest version
\* of every oid of the chunk that has one
Load(c) ==
  /\ task[c].pc = "load"
  /\ \E ds \in SUBSET Find(store, ChunkOids(c)) :
       /\ \A d \in ds : IsAnchor(store, d)
       /\ \A o \in ChunkOids(c) :
            Find(store, {o}) # {} => Cardinality({d \in ds : d._oid = o}) = 1
       /\ task' = [task EXCEPT ![c].docs = ds, ![c].pc = "handler"]
  /\ UNCHANGED <<store, nextId, pcMain, hasIncon, handlers, inconLog, raisedBy,
                 envVars>>

\* lines 253-264: find or activity_get raises
LoadFails(c) ==
  /\ task[c].pc = "load"
  /\ task' = [task EXCEPT ![c].pc = "failed", ![c].fail = "load",
                         ![c].nth = FailRank]
  /\ UNCHANGED <<store, nextId, pcMain, hasIncon, handlers, inconLog, raisedBy,
                 envVars>>

\* lines 271-275: self.incon_logger = logging.getLogger('incon') and one
\* more FileHandler on that logger
AddHandler(c) ==
  /\ task[c].pc = "handler"
  /\ hasIncon' = TRUE
  /\ handlers' = handlers + 1
  /\ task' = [task EXCEPT ![c].pc = IF task[c].docs = {} THEN "del" ELSE "docs"]
  /\ UNCHANGED <<store, nextId, pcMain, inconLog, raisedBy, envVars>>

\* self.incon_logger.debug(...) for every entry: each handler of the logger
\* writes the entry to the log file
RECURSIVE Logged(_, _, _)
Logged(log, entries, n) ==
  IF entries = <<>> THEN log
  ELSE LET e == Head(entries)
           k == IF e \in DOMAIN log THEN log[e] ELSE 0
       IN Logged(Put(log, e, k + n), Tail(entries), n)

\* a loop that swaps every document into the store as soon as it is
\* reconstructed
ImportDoc_SwapsEach(c, d) ==
  /\ task[c].pc = "docs"
  /\ d \in task[c].docs
  /\ LET acts == IF d._oid \in DOMAIN activities THEN activities[d._oid] ELSE <<>>
         r == _activity_import_doc(TimeDoc(d), acts, cfield)
         rest == task[c].docs \ {d}
     IN IF r.err \/ (r.incons # <<>> /\ ~hasIncon)
        THEN /\ task' = [task EXCEPT ![c].pc = "failed", ![c].fail = "import",
                         ![c].nth = FailRank]
             /\ UNCHANGED <<inconLog, store, nextId>>
        ELSE /\ inconLog' = Logged(inconLog, r.incons, handlers)
             /\ store' = IF r.batch # <<>>
                         THEN StoreSave(StoreRemove(store, {d._id}), nextId,
                                        r.batch)
                         ELSE store
             /\ nextId' = nextId + Len(r.batch)
             /\ task' = [task EXCEPT
                  ![c].docs = rest,
                  ![c].removed = @ \/ r.batch # <<>>,
                  ![c].saved = @ \/ r.batch # <<>>,
                  ![c].pc = IF rest = {} THEN "del" ELSE "docs"]
  /\ UNCHANGED <<pcMain, hasIncon, handlers, raisedBy, envVars>>

\* a loop without the test of line 283: the _id of every document goes to
\* remove_ids
ImportDoc_AlwaysRemoves(c, d) ==
  /\ task[c].pc = "docs"
  /\ d \in task[c].docs
  /\ LET acts == IF d._oid \in DOMAIN activities THEN activities[d._oid] ELSE <<>>
         r == _activity_import_doc(TimeDoc(d), acts, cfield)
         rest == task[c].docs \ {d}
     IN IF r.err \/ (r.incons # <<>> /\ ~hasIncon)
        THEN /\ task' = [task EXCEPT ![c].pc = "failed", ![c].fail = "import",
                         ![c].nth = FailRank]
             /\ UNCHANGED inconLog
        ELSE /\ inconLog' = Logged(inconLog, r.incons, handlers)
             /\ task' = [task EXCEPT
                  ![c].docs = rest,
                  ![c].save_objects = @ \o r.batch,
                  ![c].remove_ids = @ \cup {d._id},
                  ![c].pc = IF rest = {} THEN "del" ELSE "docs"]
  /\ UNCHANGED <<store, nextId, pcMain, hasIncon, handlers, raisedBy, envVars>>

\* lines 277-285 for one document of docs.values()
ImportDoc(c, d) ==
  /\ task[c].pc = "docs"
  /\ d \in task[c].docs
  /\ LET acts == IF d._oid \in DOMAIN activities THEN activities[d._oid] ELSE <<>>
         r == _activity_import_doc(TimeDoc(d), acts, cfield)
         rest == task[c].docs \ {d}
     IN IF r.err
        THEN /\ task' = [task EXCEPT ![c].pc = "failed", ![c].fail = "import",
                         ![c].nth = FailRank]
             /\ UNCHANGED inconLog
        ELSE IF r.incons # <<>> /\ ~hasIncon
        THEN \* line 335: self.incon_logger raises AttributeError
             /\ task' = [task EXCEPT ![c].pc = "failed", ![c].fail = "attribute",
                         ![c].nth = FailRank]
             /\ UNCHANGED inconLog
        ELSE /\ inconLog' = Logged(inconLog, r.incons, handlers)
             /\ task' = [task EXCEPT
                  ![c].docs = rest,
                  ![c].save_objects = IF r.batch # <<>> THEN @ \o r.batch ELSE @,
                  ![c].remove_ids = IF r.batch # <<>> THEN @ \cup {d._id} ELSE @,
                  ![c].pc = IF rest = {} THEN "del" ELSE "docs"]
  /\ UNCHANGED <<store, nextId, pcMain, hasIncon, handlers, raisedBy, envVars>>

\* line 287: del self.incon_logger
DelLogger(c) ==
  /\ task[c].pc = "del"
  /\ hasIncon
  /\ hasIncon' = FALSE
  /\ task' = [task EXCEPT ![c].pc = "remove"]
  /\ UNCHANGED <<store, nextId, pcMain, handlers, inconLog, raisedBy, envVars>>

\* line 287 when another task deleted the attribute: AttributeError
DelLoggerFails(c) ==
  /\ task[c].pc = "del"
  /\ ~hasIncon
  /\ task' = [task EXCEPT ![c].pc = "failed", ![c].fail = "attribute",
                         ![c].nth = FailRank]
  /\ UNCHANGED <<store, nextId, pcMain, hasIncon, handlers, inconLog, raisedBy,
                 envVars>>

\* line 289: self.cube_remove(ids=remove_ids); remove returns [] without a
\* request when there are no ids (lines 207-208)
Remove(c) ==
  /\ task[c].pc = "remove"
  /\ IF task[c].remove_ids = {}
     THEN /\ task' = [task EXCEPT ![c].pc = "save"]
          /\ UNCHANGED store
     ELSE /\ store' = StoreRemove(store, task[c].remove_ids)
          /\ task' = [task EXCEPT ![c].pc = "save", ![c].removed = TRUE]
  /\ UNCHANGED <<nextId, pcMain, hasIncon, handlers, inconLog, raisedBy, envVars>>

\* line 289: the request of cube_remove raises
RemoveFails(c) ==
  /\ task[c].pc = "remove"
  /\ task[c].remove_ids # {}
  /\ task' = [task EXCEPT ![c].pc = "failed", ![c].fail = "remove",
                         ![c].nth = FailRank]
  /\ UNCHANGED <<store, nextId, pcMain, hasIncon, handlers, inconLog, raisedBy,
                 envVars>>

\* line 290: self.cube_save(save_objects); save returns [] without a request
\* when there are no objects (lines 172-175)
Save(c) ==
  /\ task[c].pc = "save"
  /\ IF task[c].save_objects = <<>>
     THEN /\ task' = [task EXCEPT ![c].pc = "done"]
          /\ UNCHANGED <<store, nextId>>
     ELSE /\ store' = StoreSave(store, nextId, task[c].save_objects)
          /\ nextId' = nextId + Len(task[c].save_objects)
          /\ task' = [task EXCEPT ![c].pc = "done", ![c].saved = TRUE]
  /\ UNCHANGED <<pcMain, hasIncon, handlers, inconLog, raisedBy, envVars>>

\* line 290: the request of cube_save raises
SaveFails(c) ==
  /\ task[c].pc = "save"
  /\ task[c].save_objects # <<>>
  /\ task' = [task EXCEPT ![c].pc = "failed", ![c].fail = "save",
                         ![c].nth = FailRank]
  /\ UNCHANGED <<store, nextId, pcMain, hasIncon, handlers, inconLog, raisedBy,
                 envVars>>

\* a with block that is left as soon as one task has finished
PoolDrained_FirstFinished == \E c \in ChunkIds : Finished(c)

\* leaving the with block (line 242): shutdown(wait=True) returns when every
\* submitted task has finished
PoolDrained == \A c \in ChunkIds : Finished(c)

\* with an empty list of oids line 243 submits nothing
ExitWith ==
  /\ \/ pcMain = "shutdown"
     \/ pcMain = "submit" /\ ChunkIds = {}
  /\ PoolDrained
  /\ pcMain' = "collect"
  /\ UNCHANGED <<store, nextId, task, hasIncon, handlers, inconLog, raisedBy,
                 envVars>>

\* lines 247-248: no future holds an exception
Return ==
  /\ pcMain = "collect"
  /\ \A c \in ChunkIds : ~Failed(c)
  /\ pcMain' = "returned"
  /\ UNCHANGED <<store, nextId, task, hasIncon, handlers, inconLog, raisedBy,
                 envVars>>

\* lines 247-248: future.result() raises the exception of the first failed
\* future as_completed yields; it yields the finished futures in the order
\* of a set
Raise(c) ==
  /\ pcMain = "collect"
  /\ Failed(c)
  /\ pcMain' = "raised"
  /\ raisedBy' = c
  /\ UNCHANGED <<store, nextId, task, hasIncon, handlers, inconLog, envVars>>

\* the steps of the calling thread
MainNext ==
  \/ \E c \in ChunkIds : Submit(c)
  \/ ExitWith
  \/ Return
  \/ \E c \in ChunkIds : Raise(c)

\* the steps of the worker threads but the reconstruction of a document
TaskNext ==
  \/ \E c \in ChunkIds : Start(c)
  \/ \E c \in ChunkIds : Load(c)
  \/ \E c \in ChunkIds : LoadFails(c)
  \/ \E c \in ChunkIds : AddHandler(c)
  \/ \E c \in ChunkIds : DelLogger(c)
  \/ \E c \in ChunkIds : DelLoggerFails(c)
  \/ \E c \in ChunkIds : Remove(c)
  \/ \E c \in ChunkIds : RemoveFails(c)
  \/ \E c \in ChunkIds : Save(c)
  \/ \E c \in ChunkIds : SaveFails(c)

Next ==
  \/ MainNext
  \/ TaskNext
  \/ \E c \in ChunkIds : \E d \in task[c].docs : ImportDoc(c, d)

Spec == Init /\ [][Next]_vars


(***************************************************************************)
(* Properties of the run of activity_import (Spec).                        *)
(***************************************************************************)
Terminated == pcMain \in {"returned", "raised"}

\* the failures a chunk task has when it runs alone: a store call raised
StoreFailures == {"load", "remove", "save"}

\* C4: chunk tasks do not interfere: a chunk task fails only where it fails
\* when it runs alone, that is when one of its own store calls raises.
C4_ChunksIndependent ==
  \A c \in ChunkIds : Failed(c) => task[c].fail \in StoreFailures

\* C5: no chunk task ends, in success or in failure, with its anchors
\* deleted from the store and the batches replacing them not inserted.
C5_SwapTogether ==
  \A c \in ChunkIds : (Finished(c) /\ task[c].removed) => task[c].saved

MainRank ==
  CASE pcMain = "submit" -> 0
    [] pcMain = "shutdown" -> 1
    [] pcMain = "collect" -> 2
    [] OTHER -> 3

TaskRank(t) ==
  CASE t.pc = "unsubmitted" -> 0
    [] t.pc = "queued" -> 1
    [] t.pc = "load" -> 2
    [] t.pc = "handler" -> 3
    [] t.pc = "docs" -> 20 - Cardinality(t.docs)
    [] t.pc = "del" -> 21
    [] t.pc = "remove" -> 22
    [] t.pc = "save" -> 23
    [] OTHER -> 24

RECURSIVE Progress(_)
Progress(n) ==
  IF n = 0 THEN MainRank ELSE Progress(n - 1) + TaskRank(task[n])

\* C7: activity_import returns or raises only when every chunk task has
\* finished, it raises exactly when some chunk task failed, and it always
\* comes to return or raise: until then the calling thread or a task can
\* take a step (a task at line 277 has a document to reconstruct), and every
\* step brings the run further.
C7_ReturnsAfterAll ==
  /\ [](Terminated =>
          /\ \A c \in ChunkIds : Finished(c)
          /\ (pcMain = "raised") <=> (\E c \in ChunkIds : Failed(c)))
  /\ [](\/ Terminated
        \/ ENABLED (MainNext \/ TaskNext)
        \/ \E c \in ChunkIds : task[c].pc = "docs" /\ task[c].docs # {})
  /\ [][Progress(NChunks)' > Progress(NChunks)]_vars

\* a run that raised with a chunk committed and a chunk failed
C7_Witness ==
  /\ pcMain = "raised"
  /\ \E b, c \in ChunkIds : Failed(b) /\ task[c].pc = "done" /\ task[c].saved

\* C8: when chunks fail at load time and no other store call fails, every
\* other chunk commits its swap, the documents of the failing chunks are
\* unchanged, and the run raises.
C8_FailureIsolation ==
  (/\ Terminated
   /\ \E c \in ChunkIds : task[c].fail = "load"
   /\ \A c \in ChunkIds : task[c].fail \notin {"remove", "save"})
    => /\ \A c \in ChunkIds : task[c].fail # "load" => task[c].pc = "done"
       /\ \A c \in ChunkIds :
            task[c].fail = "load"
              => \A o \in ChunkOids(c) : Versions(store, o) = Versions(store0, o)
       /\ pcMain = "raised"

\* the chunks in the order of submission, one after the other
RECURSIVE ChunksConcat(_)
ChunksConcat(n) == IF n = 0 THEN <<>> ELSE ChunksConcat(n - 1) \o ChunkSeq(n)

\* C17: the oids are cut into contiguous chunks: every chunk has between one
\* and chunk_size oids, every oid is in exactly one chunk, the chunks put
\* one after the other are the list of oids, and one task is submitted per
\* chunk: none for an empty list, and once the submission is over every
\* chunk has its task and there is no other task.
C17_ChunkPartition ==
  /\ \A c \in ChunkIds :
       Len(ChunkSeq(c)) >= 1 /\ Len(ChunkSeq(c)) <= chunk_size
  /\ \A j \in 1..Len(oids) :
       Cardinality({c \in ChunkIds : oids[j] \in ChunkOids(c)}) = 1
  /\ ChunksConcat(NChunks) = oids
  /\ DOMAIN task = ChunkIds
  /\ oids = <<>> => task = <<>>
  /\ pcMain # "submit" => \A c \in ChunkIds : task[c].pc # "unsubmitted"

\* three oids in chunks of two: the tasks of [1, 2] and [3] are submitted
C17_Witness ==
  /\ oids = <<1, 2, 3>>
  /\ chunk_size = 2
  /\ pcMain = "shutdown"
  /\ ChunkSeq(1) = <<1, 2>> /\ ChunkSeq(2) = <<3>>
  /\ DOMAIN task = {1, 2}
  /\ task[1].pc # "unsubmitted" /\ task[2].pc # "unsubmitted"

\* C18: the documents a chunk task reconstructs (docs, when the loop of
\* lines 257-261 is over) are, for every oid of its chunk that has version
\* documents, exactly one stored version of that oid, one of least _start,
\* and nothing else; for an oid without version documents nothing is
\* reconstructed, deleted or inserted.
C18_AnchorIsOldest ==
  /\ \A c \in ChunkIds :
       task[c].pc = "handler" =>
         /\ \A d \in task[c].docs :
              /\ d \in store
              /\ d._oid \in ChunkOids(c)
              /\ \A e \in Versions(store, d._oid) : d._start.i <= e._start.i
         /\ \A o \in ChunkOids(c) :
              Cardinality({d \in task[c].docs : d._oid = o}) =
                IF Versions(store, o) = {} THEN 0 ELSE 1
  /\ \A o \in 1..MaxOids :
       Versions(store0, o) = {} =>
         /\ Versions(store, o) = {}
         /\ \A c \in ChunkIds :
              /\ \A d \in task[c].docs : d._oid # o
              /\ \A j \in 1..Len(task[c].save_objects) :
                   task[c].save_objects[j]._oid # o

\* oid 1 has two versions and the chunk task holds the older one; the chunk
\* of the oid without versions is done and called neither remove nor save
C18_Witness ==
  /\ Cardinality(Versions(store, 1)) = 2
  /\ \E c \in ChunkIds :
       /\ task[c].pc = "handler"
       /\ \E d \in task[c].docs : d._oid = 1 /\ d._start = Num(2)
  /\ \E c \in ChunkIds :
       /\ task[c].pc = "done"
       /\ ChunkOids(c) = {MaxOids}
       /\ Versions(store0, MaxOids) = {}
       /\ ~task[c].removed /\ ~task[c].saved

\* C21: when several chunk tasks fail in one run, the exception that
\* activity_import raises is the one of the chunk task that failed first.
C21_FirstFailureRaised ==
  pcMain = "raised" => task[raisedBy].nth = 1

\* the chunk task failed before line 287: at its load (lines 253-264) or in
\* the loop of lines 277-285, with documents left to reconstruct
FailedEarly(c) ==
  /\ Failed(c)
  /\ task[c].fail = "load" \/ task[c].docs # {}

\* C24: a chunk task that fails while it loads the version documents or
\* the activities, or while it reconstructs one of its oids, has changed
\* nothing in the store: it called neither remove nor save, and the version
\* documents of every oid of its chunk, the oids reconstructed before the
\* failure included, are the ones activity_import started with.
C24_EarlyFailureNoMutation ==
  \A c \in ChunkIds :
    FailedEarly(c) =>
      /\ ~task[c].removed
      /\ ~task[c].saved
      /\ \A o \in ChunkOids(c) : Versions(store, o) = Versions(store0, o)

\* a chunk task of two oids failed in the loop after it had reconstructed
\* the first one: its batch is in save_objects and the store is untouched
C24_Witness ==
  \E c \in ChunkIds :
    /\ Failed(c)
    /\ task[c].docs # {}
    /\ task[c].save_objects # <<>>
    /\ task[c].remove_ids # {}
    /\ ~task[c].removed /\ ~task[c].saved
    /\ \A o \in ChunkOids(c) : Versions(store, o) = Versions(store0, o)

\* the batch reconstruction returns for the stored version d
BatchOf(d) ==
  _activity_import_doc([d EXCEPT !._id = 0, !._hash = 0],
                       IF d._oid \in DOMAIN activities
                         THEN activities[d._oid] ELSE <<>>,
                       cfield).batch

\* the oldest stored version of the oid o
Oldest(o) ==
  {d \in Versions(store0, o) :
     \A e \in Versions(store0, o) : d._start.i <= e._start.i}

\* C25: when the loop of lines 277-285 is over, the _id of the anchor of an
\* oid of the chunk is in remove_ids if and only if reconstruction returned
\* a non-empty batch for it, and save_objects has, for that oid, exactly the
\* documents of the batch; when the task is done the anchors of the
\* non-empty batches are gone from the store and their batches are in it,
\* and the versions of an oid with an empty batch are untouched.
C25_DeleteIffBatch ==
  \A c \in ChunkIds :
    task[c].pc \in {"del", "remove", "save", "done"} =>
      \A o \in ChunkOids(c) : \A d \in Oldest(o) :
        /\ d._id \in task[c].remove_ids <=> BatchOf(d) # <<>>
        /\ SelectSeq(task[c].save_objects, LAMBDA x : x._oid = o) = BatchOf(d)
        /\ task[c].pc = "done" =>
             IF BatchOf(d) = <<>>
             THEN Versions(store, o) = Versions(store0, o)
             ELSE /\ d \notin store
                  /\ Cardinality(Versions(store, o)) =
                       Cardinality(Versions(store0, o)) - 1 + Len(BatchOf(d))
                  /\ \A j \in 1..Len(BatchOf(d)) :
                       \E e \in Versions(store, o) :
                         /\ e._start = dt2ts(BatchOf(d)[j]._start)
                         /\ e._end = dt2ts(BatchOf(d)[j]._end)
                         /\ e.fld = BatchOf(d)[j].fld

\* a chunk task of two oids is done: the anchor of oid 1 had a batch of two
\* documents and was replaced, the anchor of oid 2 had an empty batch and
\* is still there
C25_Witness ==
  \E c \in ChunkIds :
    /\ task[c].pc = "done"
    /\ ChunkOids(c) = {1, 2}
    /\ \E d \in Oldest(1) :
         Len(BatchOf(d)) = 2 /\ task[c].remove_ids = {d._id} /\ d \notin store
    /\ \E d \in Oldest(2) : BatchOf(d) = <<>> /\ d \in store

\* C26: every detected inconsistency is written exactly once to the
\* inconsistency log: no entry of the log is there more than once, and the
\* inconsistent activity of every oid of a chunk task that is done has its
\* entry.
C26_LoggedOnce ==
  /\ \A e \in DOMAIN inconLog : inconLog[e] = 1
  /\ \A c \in ChunkIds :
       task[c].pc = "done" =>
         \A o \in ChunkOids(c) :
           (Versions(store0, o) # {} /\ activities[o] # <<>>)
             => \E e \in DOMAIN inconLog : e.last_doc_oid = o

\* C12: a detected inconsistency never aborts: no chunk task fails inside the
\* loop of lines 277-285 at the logging of an inconsistency (line 335); the
\* task goes on to the remaining documents and to its store swap.
C12_InconsistencyNeverAborts ==
  \A c \in ChunkIds :
    ~(Failed(c) /\ task[c].fail = "attribute" /\ task[c].docs # {})


(***************************************************************************)
(* _activity_backwards called on its own, on every combination of a        *)
(* current value, a removed value and an added value.                      *)
(***************************************************************************)
MaxElem == 3
MaxListLen == 2

\* the lists of up to MaxListLen elements
Lists == UNION {[1..n -> 1..MaxElem] : n \in 0..MaxListLen}

\* the values of a field and of the removed / added entries of an activity
UndoValues ==
  {NoneV} \cup {Num(n) : n \in 1..MaxElem} \cup {ListV(s) : s \in Lists}

InitUndo ==
  /\ undo \in [pc : {"call"}, val : UndoValues, removed : UndoValues,
               added : UndoValues, ret : {NoRet}]
  /\ recon = Idle
  /\ saving = Idle
  /\ authn = Idle
  /\ request = Idle
  /\ store = {}
  /\ nextId = 1
  /\ activities = <<>>
  /\ cfield = Unset
  /\ runs = 0
  /\ rerun = FALSE
  /\ prevActs = <<>>
  /\ lastDoc = NoDoc
  /\ lastActs = <<>>
  /\ lastBatch = <<>>
  /\ lastIncons = <<>>
  /\ lastFlagged = {}
  /\ lastRemoved = {}
  /\ lastSaved = <<>>
  /\ oids = <<>>
  /\ chunk_size = 1
  /\ max_workers = 1
  /\ pcMain = "idle"
  /\ task = <<>>
  /\ hasIncon = FALSE
  /\ handlers = 0
  /\ inconLog = <<>>
  /\ raisedBy = 0
  /\ store0 = {}

\* lines 358-371: the call returns (val, inconsistent) or raises
Backwards ==
  /\ undo.pc = "call"
  /\ undo' = [undo EXCEPT
       !.pc = "returned",
       !.ret = _activity_backwards(undo.val, undo.removed, undo.added)]
  /\ UNCHANGED <<store, nextId, activities, cfield, seqVars, mainVars, recon,
                 saving, authn, request>>

NextUndo == Backwards

SpecUndo == InitUndo /\ [][NextUndo]_vars

\* C13: scalar undo: when added and removed are not both lists, the call
\* returns removed as the undone value whatever the current value is, and
\* the inconsistency flag is (current value # added).
C13_ScalarUndo ==
  (/\ undo.pc = "returned"
   /\ ~(undo.added.t = "list" /\ undo.removed.t = "list"))
    => /\ ~undo.ret.err
       /\ undo.ret.val = undo.removed
       /\ undo.ret.inconsistent = (undo.val # undo.added)

\* current 2, removed 1, added 3 gives (1, inconsistent)
C13_Witness ==
  /\ undo.pc = "returned"
  /\ undo.val = Num(2) /\ undo.removed = Num(1) /\ undo.added = Num(3)
  /\ undo.ret.val = Num(1)
  /\ undo.ret.inconsistent

\* number of occurrences of x in the list s
Count(s, x) == Cardinality({j \in 1..Len(s) : s[j] = x})

\* the positions of the list cur that survive the removal of one occurrence,
\* the first one left, for every element of added
KeptIdx(cur, added) ==
  {j \in 1..Len(cur) : Count(SubSeq(cur, 1, j), cur[j]) > Count(added, cur[j])}

\* C14: list undo: when added and removed are both lists and the current
\* value is a list or None (taken as the empty list), the result is the
\* current list without one occurrence, the first, for every element of
\* added that is present at its turn, followed by all of removed; the flag
\* is set iff some element of added was not present at its turn, and
\* removed is appended whether the flag is set or not.
C14_ListUndo ==
  (/\ undo.pc = "returned"
   /\ undo.added.t = "list" /\ undo.removed.t = "list"
   /\ undo.val.t \in {"none", "list"})
    => LET cur == undo.val.l
           kept == KeptIdx(cur, undo.added.l)
           n == Cardinality(kept)
           out == undo.ret.val.l
       IN /\ ~undo.ret.err
          /\ undo.ret.val.t = "list"
          /\ Len(out) = n + Len(undo.removed.l)
          /\ SubSeq(out, n + 1, Len(out)) = undo.removed.l
          /\ \A j \in kept : out[Cardinality({i \in kept : i <= j})] = cur[j]
          /\ undo.ret.inconsistent
               <=> \E x \in 1..MaxElem :
                     Count(undo.added.l, x) > Count(cur, x)

\* current [1, 2], removed [3], added [1] gives ([2, 3], consistent)
C14_Witness ==
  /\ undo.pc = "returned"
  /\ undo.val = ListV(<<1, 2>>)
  /\ undo.removed = ListV(<<3>>)
  /\ undo.added = ListV(<<1>>)
  /\ undo.ret.val = ListV(<<2, 3>>)
  /\ ~undo.ret.inconsistent


(***************************************************************************)
(* _activity_import_doc called on its own on a document with a list field, *)
(* with the objects of the activity records it is given: the scalar        *)
(* branch of _activity_backwards hands the activity's own removed object   *)
(* to the document (val = removed, line 370, new_doc[field] = new_val,     *)
(* line 324), and the list branch changes the document's list in place     *)
(* (lines 364 and 367).                                                    *)
(***************************************************************************)
\* no activity_import and no chunk task
CubeIdle ==
  /\ store = {}
  /\ nextId = 1
  /\ activities = <<>>
  /\ cfield = Unset
  /\ runs = 0
  /\ rerun = FALSE
  /\ prevActs = <<>>
  /\ lastDoc = NoDoc
  /\ lastActs = <<>>
  /\ lastBatch = <<>>
  /\ lastIncons = <<>>
  /\ lastFlagged = {}
  /\ lastRemoved = {}
  /\ lastSaved = <<>>
  /\ oids = <<>>
  /\ chunk_size = 1
  /\ max_workers = 1
  /\ pcMain = "idle"
  /\ task = <<>>
  /\ hasIncon = FALSE
  /\ handlers = 0
  /\ inconLog = <<>>
  /\ raisedBy = 0
  /\ store0 = {}

cubeVars == <<store, nextId, activities, cfield, seqVars, mainVars>>

\* the loop of lines 306-341 on the activity objects: al.mut are the
\* records of acts as they are now, al.alias[f] is the place in acts of the
\* record whose removed list is the very object new_doc[f] holds (0: none).
\* st is the loop's state before the k-th iteration.
RECURSIVE AliasLoop(_, _, _, _)
AliasLoop(st, acts, k, al) ==
  IF k > Len(acts) \/ st.err THEN al
  ELSE
    LET a == acts[k]
        removed == DtAsTs(a.removed)
        added == DtAsTs(a.added)
        top == Last(st.batch)
        \* line 316: a deepcopy shares no object with the activities
        alias0 == IF SameInstant(top, a.when) THEN al.alias
                  ELSE [f \in DOMAIN al.alias |-> 0]
        val == top.fld[a.field]
        u == _activity_backwards(val, removed, added)
        lists == added.t = "list" /\ removed.t = "list"
        j == alias0[a.field]
        \* lines 364 and 367 on the list object of an earlier record
        mut1 == IF lists /\ val.t = "list" /\ j # 0
                THEN [al.mut EXCEPT ![j].removed = u.val]
                ELSE al.mut
        alias1 == IF lists
                  THEN IF val.t = "list" THEN alias0
                       ELSE [alias0 EXCEPT ![a.field] = 0]
                  ELSE [alias0 EXCEPT
                          ![a.field] = IF a.removed.t = "list" THEN k ELSE 0]
    IN AliasLoop(ImportStep(st, a), acts, k + 1,
                 [mut |-> mut1, alias |-> alias1])

\* the activities that pass the filter, in the order of the loop
LoopActs(time_doc, acts) ==
  SortedDesc(FilterActs(time_doc, ts2dt(time_doc._start), acts))

\* the same records when _activity_import_doc has returned
ActsAfter(time_doc, acts) ==
  LET doc0 == [time_doc EXCEPT !._start = ts2dt(time_doc._start)]
  IN AliasLoop([batch |-> <<doc0>>, err |-> FALSE, incons |-> <<>>,
                flagged |-> {}],
               LoopActs(time_doc, acts), 1,
               [mut |-> LoopActs(time_doc, acts),
                alias |-> [f \in DOMAIN time_doc.fld |-> 0]]).mut

\* the values of the list field and of the activities on it
TagValues == {NoneV} \cup {ListV(<<n>>) : n \in 1..MaxVal}

\* an anchor [MaxT, None) with the list field tags, as line 282 passes it
TagDoc(tags) ==
  [_id |-> 0, _hash |-> 0, _oid |-> 1, _start |-> Num(MaxT), _end |-> NoneV,
   fld |-> [f \in {"tags"} |-> tags], _corrupted |-> <<>>]

TagActs ==
  [when : {Dt(w) : w \in 1..(MaxT - 1)}, field : {"tags"},
   removed : TagValues, added : TagValues]

InitDoc ==
  /\ recon \in [pc : {"call"},
                time_doc : {TagDoc(v) : v \in TagValues},
                activities : UNION {[1..n -> TagActs] : n \in 0..MaxActs},
                batch : {<<>>}, supplied : {<<>>}, after : {<<>>}]
  /\ CubeIdle
  /\ undo = NoCall
  /\ saving = Idle
  /\ authn = Idle
  /\ request = Idle

\* lines 293-355: the call returns its batch (or raises)
Reconstruct ==
  /\ recon.pc = "call"
  /\ LET r == _activity_import_doc(recon.time_doc, recon.activities, Unset)
     IN recon' = [recon EXCEPT
          !.pc = IF r.err THEN "raised" ELSE "returned",
          !.batch = r.batch,
          !.supplied = LoopActs(recon.time_doc, recon.activities),
          !.after = ActsAfter(recon.time_doc, recon.activities)]
  /\ UNCHANGED <<cubeVars, undo, saving, authn, request>>

NextDoc == Reconstruct

SpecDoc == InitDoc /\ [][NextDoc]_vars

\* C22: the activity records are not changed by reconstruction: when
\* _activity_import_doc has returned, every activity record it was given,
\* its list-valued removed and added included, is equal to what it was
\* before the call.
C22_ActivitiesUnchanged ==
  recon.pc = "returned" => recon.after = recon.supplied


(***************************************************************************)
(* save(self, objects, cube, batch_size, owner), lines 159-195.  An object *)
(* is known by its id; the server answers a post with the ids of the       *)
(* objects of the post that were new to it.                                *)
(***************************************************************************)
MaxObjs == 3
MaxBatch == 2

\* metriqueu.utils.set_default(value, default): the default for None
set_default(value, default) == IF value.t = "none" THEN default ELSE value

\* metriqueu.utils.batch_gen(data, batch_size): consecutive slices of
\* batch_size elements, the last one with what is left
RECURSIVE batch_gen(_, _)
batch_gen(data, batch_size) ==
  IF data = <<>> THEN <<>>
  ELSE IF Len(data) <= batch_size THEN <<data>>
  ELSE <<SubSeq(data, 1, batch_size)>>
         \o batch_gen(SubSeq(data, batch_size + 1, Len(data)), batch_size)

\* line 184: everything goes in one post
OnePost(batch_size, olen) == batch_size <= 0 \/ olen <= batch_size

\* insert the id x into the ascending list s
RECURSIVE InsertAsc(_, _)
InsertAsc(s, x) ==
  IF s = <<>> THEN <<x>>
  ELSE IF x < Head(s) THEN <<x>> \o s
  ELSE <<Head(s)>> \o InsertAsc(Tail(s), x)

\* a return without the sort of line 195
SortedIds_AsAnswered(ids) == ids

\* line 195: sorted(saved)
RECURSIVE SortedIds(_)
SortedIds(ids) ==
  IF ids = <<>> THEN <<>> ELSE InsertAsc(SortedIds(Front(ids)), Last(ids))

\* the answer of the server to the post of batch
RECURSIVE PostReply(_, _)
PostReply(batch, fresh) ==
  IF batch = <<>> THEN <<>>
  ELSE (IF Head(batch) \in fresh THEN <<Head(batch)>> ELSE <<>>)
         \o PostReply(Tail(batch), fresh)

\* the lists of objects: up to MaxObjs different objects in any order
ObjectLists ==
  {s \in UNION {[1..n -> 1..MaxObjs] : n \in 0..MaxObjs} :
     \A i, j \in 1..Len(s) : i # j => s[i] # s[j]}

InitSave ==
  /\ saving \in [pc : {"call"},
                 objects : {NoneV} \cup {ListV(s) : s \in ObjectLists},
                 batch_size : {NoneV} \cup {Num(n) : n \in -1..MaxBatch},
                 config_batch_size : {Num(0), Num(MaxBatch)},
                 fresh : SUBSET (1..MaxObjs),
                 todo : {<<>>}, posts : {<<>>}, answers : {<<>>},
                 saved : {<<>>}, ret : {<<>>}]
  /\ CubeIdle
  /\ undo = NoCall
  /\ recon = Idle
  /\ authn = Idle
  /\ request = Idle

\* lines 170-184: nothing to save, or the posts to make
SaveCall ==
  /\ saving.pc = "call"
  /\ LET batch_size == set_default(saving.batch_size,
                                   saving.config_batch_size).i
         objects == saving.objects.l
         olen == Len(objects)
     IN saving' =
          IF saving.objects.t = "none" \/ olen = 0
          THEN [saving EXCEPT !.pc = "returned", !.ret = <<>>]
          ELSE [saving EXCEPT
                  !.pc = "posting",
                  !.todo = IF OnePost(batch_size, olen) THEN <<objects>>
                           ELSE batch_gen(objects, batch_size)]
  /\ UNCHANGED <<cubeVars, undo, recon, authn, request>>

\* lines 185 and 189-191: one post; after the last one save returns the
\* sorted ids (lines 194-195)
Post ==
  /\ saving.pc = "posting"
  /\ saving.todo # <<>>
  /\ LET batch == Head(saving.todo)
         answer == PostReply(batch, saving.fresh)
         saved == saving.saved \o answer
     IN saving' = [saving EXCEPT
          !.todo = Tail(saving.todo),
          !.posts = Append(saving.posts, batch),
          !.answers = Append(saving.answers, answer),
          !.saved = saved,
          !.pc = IF Tail(saving.todo) = <<>> THEN "returned" ELSE "posting",
          !.ret = IF Tail(saving.todo) = <<>> THEN SortedIds(saved) ELSE <<>>]
  /\ UNCHANGED <<cubeVars, undo, recon, authn, request>>

\* lines 185 and 190: the request raises and so does save
PostFails ==
  /\ saving.pc = "posting"
  /\ saving.todo # <<>>
  /\ saving' = [saving EXCEPT !.pc = "raised"]
  /\ UNCHANGED <<cubeVars, undo, recon, authn, request>>

NextSave == SaveCall \/ Post \/ PostFails

SpecSave == InitSave /\ [][NextSave]_vars

\* the lists of s one after the other
RECURSIVE Flat(_)
Flat(s) == IF s = <<>> THEN <<>> ELSE Head(s) \o Flat(Tail(s))

\* C23: when save has returned, the posts made, one after the other, are
\* the objects given, each once and in the order given: one post with all
\* of them when batch_size <= 0 or there are at most batch_size objects,
\* else posts of batch_size objects and a last one with what is left; save
\* returns the ids the posts answered, sorted; for None or no object it
\* returns [] and has posted nothing.
C23_SavePosts ==
  saving.pc = "returned" =>
    LET bs == IF saving.batch_size.t = "none" THEN saving.config_batch_size.i
              ELSE saving.batch_size.i
        objects == saving.objects.l
        n == Len(saving.posts)
    IN IF saving.objects.t = "none" \/ objects = <<>>
       THEN saving.posts = <<>> /\ saving.ret = <<>>
       ELSE /\ Flat(saving.posts) = objects
            /\ (bs <= 0 \/ Len(objects) <= bs) => n = 1
            /\ ~(bs <= 0 \/ Len(objects) <= bs) =>
                 /\ \A k \in 1..(n - 1) : Len(saving.posts[k]) = bs
                 /\ Len(saving.posts[n]) >= 1 /\ Len(saving.posts[n]) <= bs
            /\ Len(saving.ret) = Len(Flat(saving.answers))
            /\ \A x \in 1..MaxObjs :
                 Cardinality({k \in 1..Len(saving.ret) : saving.ret[k] = x})
                   = Cardinality({k \in 1..Len(Flat(saving.answers)) :
                                    Flat(saving.answers)[k] = x})
            /\ \A k \in 1..(Len(saving.ret) - 1) :
                 saving.ret[k] <= saving.ret[k + 1]

\* the objects 3, 1, 2 saved two at a time: posts [3, 1] and [2], all new
\* to the server, ids returned sorted
C23_Witness ==
  /\ saving.pc = "returned"
  /\ saving.objects = ListV(<<3, 1, 2>>)
  /\ saving.batch_size = Num(2)
  /\ saving.posts = << <<3, 1>>, <<2>> >>
  /\ saving.fresh = {1, 2, 3}
  /\ saving.ret = <<1, 2, 3>>


(***************************************************************************)
(* authenticate(handler, username, password, permissions) of the tornado   *)
(* handlers (SpecAuth): one call against a c_auth_keys collection.         *)
(***************************************************************************)
\* metrique.server.defaults.VALID_PERMISSIONS, weakest first
VALID_PERMISSIONS == <<"r", "rw", "admin">>

\* VP.index(p)
VPIndex(p) == CHOOSE k \in 1..Len(VALID_PERMISSIONS) : VALID_PERMISSIONS[k] = p

\* metrique.tools.hash_password(password, salt): the salt and a digest that
\* is decided by the password and the salt together
hash_password(password, salt) ==
  <<salt, [digest_of |-> password, salted |-> salt]>>

\* an entry without password: user['password'] is empty
NoPassword == [digest_of |-> "", salted |-> ""]

AdminUser == "admin"
AdminPassword == "root"
CubeArg == "cube1"
AllKey == "__all__"
Salt == "s1"
Usernames == {AdminUser, "alice"}
Passwords == {AdminPassword, "pw1", "pw2"}

\* what find_one gives for no document
NoEntry == [present |-> FALSE, password |-> NoPassword, salt |-> "",
            permissions |-> ""]

\* the user entries an auth-keys document can hold under a key
UserEntries ==
  [present : {TRUE},
   password : {NoPassword} \cup
              {hash_password(p, Salt)[2] : p \in {"pw1", "pw2"}},
   salt : {Salt},
   permissions : {VALID_PERMISSIONS[k] : k \in 1..Len(VALID_PERMISSIONS)}]

\* the (document _id, key) pairs of c_auth_keys that authenticate reads for
\* the user alice
KeySlots == {<<CubeArg, "alice">>, <<AllKey, "alice">>, <<AllKey, AllKey>>}

\* lines 67-71: find_one({'_id': cube, lookup: {'$exists': True}}), and the
\* value the found document has under lookup
cube_check(c_auth_keys, cube, lookup) ==
  IF <<cube, lookup>> \in DOMAIN c_auth_keys
  THEN c_auth_keys[<<cube, lookup>>]
  ELSE NoEntry

\* lines 96-103: the entry the checks are made against; NoEntry stands for
\* the return False of line 103.  The assignment of line 97 (user0) is
\* followed by an if / elif / else of its own, which overwrites it or returns
PickUser(udoc, audoc, adoc) ==
  LET user0 == IF udoc.present THEN udoc ELSE NoEntry
  IN IF audoc.present THEN audoc
     ELSE IF adoc.present THEN adoc
     ELSE NoEntry

\* lines 74-119
authenticate(a) ==
  IF ~a.auth THEN TRUE
  ELSE IF a.username = AdminUser /\ a.password = AdminPassword THEN TRUE
  ELSE
    LET udoc == cube_check(a.c_auth_keys, CubeArg, a.username)
        audoc == cube_check(a.c_auth_keys, AllKey, a.username)
        adoc == cube_check(a.c_auth_keys, AllKey, AllKey)
        user == PickUser(udoc, audoc, adoc)
    IN IF ~user.present THEN FALSE
       ELSE
         LET has_perms == VPIndex(user.permissions) >= VPIndex(a.permissions)
             p_hash == hash_password(a.password, user.salt)[2]
             p_match == user.password = p_hash
         IN IF user.password = NoPassword /\ has_perms THEN TRUE
            ELSE IF p_match /\ has_perms THEN TRUE
            ELSE FALSE

InitAuth ==
  /\ authn \in [pc : {"call"},
                auth : BOOLEAN,
                username : Usernames,
                password : Passwords,
                permissions : {VALID_PERMISSIONS[k] :
                                 k \in 1..Len(VALID_PERMISSIONS)},
                c_auth_keys : [KeySlots -> UserEntries \cup {NoEntry}],
                ret : {FALSE}]
  /\ CubeIdle
  /\ undo = NoCall
  /\ recon = Idle
  /\ saving = Idle
  /\ request = Idle

\* the call of line 134
Authenticate ==
  /\ authn.pc = "call"
  /\ authn' = [authn EXCEPT !.pc = "returned", !.ret = authenticate(authn)]
  /\ UNCHANGED <<cubeVars, undo, recon, saving, request>>

NextAuth == Authenticate

SpecAuth == InitAuth /\ [][NextAuth]_vars

\* the user's entry in the requested cube's document is enough for the call
CubeEntryGood ==
  LET udoc == cube_check(authn.c_auth_keys, CubeArg, authn.username)
  IN /\ udoc.present
     /\ VPIndex(udoc.permissions) >= VPIndex(authn.permissions)
     /\ udoc.password = hash_password(authn.password, udoc.salt)[2]

\* C29 as stated: with authentication on, a user who is not the admin and
\* has an entry in the requested cube's document with a sufficient
\* permission and a matching password is authenticated, whatever
\* '__all__' entries there are; a user with no entry anywhere is refused.
C29_CubeEntryAuthenticates ==
  (authn.pc = "returned" /\ authn.auth /\ authn.username # AdminUser)
    => /\ CubeEntryGood => authn.ret = TRUE
       /\ (\A k \in KeySlots : ~authn.c_auth_keys[k].present)
            => authn.ret = FALSE


(***************************************************************************)
(* The async decorator of the tornado handlers (SpecAsync): one request    *)
(* through wrapper, the executor's future and the future_end callback.     *)
(* The request handler is tornado's: write() appends to its buffer,        *)
(* finish() ends the request, and an exception raised under                *)
(* @tornado.web.asynchronous, in the method or in a callback registered    *)
(* from it, is given to the handler's send_error, which clears the buffer, *)
(* writes the error page and finishes the request if it is not finished.   *)
(***************************************************************************)
\* a value json.dumps cannot serialise
Opaque == [t |-> "obj", i |-> 0, l |-> <<>>]

\* what the wrapped handler f can return
HandlerResults ==
  {NoneV, Opaque} \cup {Num(n) : n \in 0..MaxVal}
  \cup {ListV(s) : s \in Lists}

\* json.dumps(_result, ensure_ascii=False) as the tokens of the text;
\* <<>> stands for the TypeError on a value that is not serialisable
RECURSIVE JsonItems(_)
JsonItems(s) ==
  IF s = <<>> THEN <<>>
  ELSE IF Len(s) = 1 THEN <<ToString(s[1])>>
  ELSE <<ToString(s[1]), ",">> \o JsonItems(Tail(s))

json_dumps(v) ==
  CASE v.t = "none" -> <<"null">>
    [] v.t = "num" -> <<ToString(v.i)>>
    [] v.t = "list" -> <<"[">> \o JsonItems(v.l) \o <<"]">>
    [] OTHER -> <<>>

\* traceback.format_exc()
Traceback == <<"Traceback">>

\* the page tornado's write_error writes for a status code
ErrorPage(code) == <<"<html>", ToString(code), "</html>">>

InitAsync ==
  /\ request \in [pc : {"call"},
                  async : BOOLEAN,
                  raises : BOOLEAN,
                  _result : HandlerResults,
                  future : {"none"},
                  write_buffer : {<<>>},
                  status : {200},
                  finished : {0}]
  /\ CubeIdle
  /\ undo = NoCall
  /\ recon = Idle
  /\ saving = Idle
  /\ authn = Idle

\* f raised, or its result cannot be serialised
Fails(r) == r.raises \/ json_dumps(r._result) = <<>>

\* lines 32-56: wrapper submits f and registers future_end, or runs f itself
Wrapper ==
  /\ request.pc = "call"
  /\ request' =
       IF request.async
       THEN [request EXCEPT !.pc = "submitted", !.future = "pending"]
       ELSE IF Fails(request)
            THEN [request EXCEPT !.pc = "exception"]
            ELSE [request EXCEPT
                    !.pc = "done",
                    !.write_buffer = @ \o json_dumps(request._result),
                    !.finished = @ + 1]
  /\ UNCHANGED <<cubeVars, undo, recon, saving, authn>>

\* line 48: a worker of the executor runs f to its result or its exception
RunF ==
  /\ request.pc = "submitted"
  /\ request.future = "pending"
  /\ request' = [request EXCEPT !.future = "done"]
  /\ UNCHANGED <<cubeVars, undo, recon, saving, authn>>

\* a callback exception that is only logged by the IOLoop
HandleException_LogsOnly ==
  /\ request.pc = "exception"
  /\ request' = [request EXCEPT !.pc = "done"]
  /\ UNCHANGED <<cubeVars, undo, recon, saving, authn>>

\* lines 22 and 43: the HTTPError raised under @tornado.web.asynchronous
\* reaches the handler's send_error
HandleException ==
  /\ request.pc = "exception"
  /\ request' = [request EXCEPT
                   !.pc = "done",
                   !.status = 500,
                   !.write_buffer = ErrorPage(500),
                   !.finished = IF @ = 0 THEN 1 ELSE @]
  /\ UNCHANGED <<cubeVars, undo, recon, saving, authn>>

\* lines 34-46: future_end(future), called by the IOLoop once the future is
\* done
FutureEnd ==
  /\ request.pc = "submitted"
  /\ request.future = "done"
  /\ request' =
       IF Fails(request)
       THEN [request EXCEPT !.pc = "exception",
                            !.write_buffer = @ \o Traceback]
       ELSE [request EXCEPT
               !.pc = "done",
               !.write_buffer = @ \o json_dumps(request._result),
               !.finished = @ + 1]
  /\ UNCHANGED <<cubeVars, undo, recon, saving, authn>>

NextAsync == Wrapper \/ RunF \/ FutureEnd \/ HandleException

SpecAsync == InitAsync /\ [][NextAsync]_vars

\* the IOLoop runs the callback of a done future and the exception handler
\* of a raised exception
FairAsync ==
  SpecAsync /\ WF_vars(FutureEnd) /\ WF_vars(HandleException)

====
